---- MODULE Spec2Model ----
(***************************************************************************)
(* Model of src/public/Booking.js: the Express application of Nova's Auto  *)
(* Center.  One collection of Booking documents, an admin login that       *)
(* issues a signed token, the verifyToken middleware and the booking       *)
(* routes.  The document store, the mailer and the clock are the           *)
(* environment: a store call or a mail send may fail, time may pass.       *)
(***************************************************************************)
EXTENDS Integers, Sequences, FiniteSets, TLC

\* ------------------------------------------------------------------ bounds
\* Number of bookings ever created in one behaviour (ids are never reused).
MaxId == 1
\* Hours the clock may advance (only SpecAuth lets time pass).
MaxTime == 4

\* ------------------------------------------------------ program constants
\* expiresIn: "4h"
TokenTTL == 4

\* process.env
ADMIN_LOGIN_EMAIL == "admin@nova"
ADMIN_LOGIN_PASSWORD == "s3cret"
JWT_SECRET == "jwt-secret"
ADMIN_EMAIL == "owner@nova"

\* ------------------------------------------------------------- JS values
\* A JavaScript value of a request body: undefined, or a string (a sequence
\* of characters, "" being the empty sequence).
Undefined == [defined |-> FALSE, chars |-> <<>>]
Str(s) == [defined |-> TRUE, chars |-> s]
\* Mutant of Falsy: only a missing value counts, "" passes.
FalsyMissingOnly(v) == ~v.defined

\* !v for such a value
Falsy(v) == ~v.defined \/ v.chars = <<>>

\* ----------------------------------------------------------------- tokens
\* jwt.sign({ email }, secret, { expiresIn: "4h" }) at time t
jwt_sign(email, secret, t) ==
    [sig |-> secret, email |-> email, iat |-> t, exp |-> t + TokenTTL]

\* Mutant of jwt_verify: the signature is checked, the expiry is not.
jwt_verify_IgnoresExpiry(token, secret, t) ==
    /\ "sig" \in DOMAIN token
    /\ token.sig = secret

\* jwt.verify(token, secret) at time t: TRUE when it returns, FALSE when it
\* throws (malformed, wrong signature, or expired: now >= exp).
jwt_verify(token, secret, t) ==
    /\ "sig" \in DOMAIN token
    /\ token.sig = secret
    /\ t < token.exp

\* A segment of the Authorization header that is plain text.
Text(s) == [text |-> s]
SegFalsy(seg) == "text" \in DOMAIN seg /\ seg.text = ""

\* The Authorization header: absent, or the segments of header.split(" ").
NoHeader == [present |-> FALSE, segs |-> <<>>]
Header(segs) == [present |-> TRUE, segs |-> segs]

Message(m) == [message |-> m]

\* verifyToken(req, res, next) at time t: next |-> TRUE when next() is
\* called, otherwise the response it sends.
verifyToken(header, t) ==
    IF ~header.present
    THEN [next |-> FALSE, status |-> 401, body |-> Message("No token provided")]
    ELSE IF Len(header.segs) < 2 \/ SegFalsy(header.segs[2])
    THEN [next |-> FALSE, status |-> 401, body |-> Message("Invalid token format")]
    ELSE IF jwt_verify(header.segs[2], JWT_SECRET, t)
    THEN [next |-> TRUE, status |-> 0, body |-> Message("")]
    ELSE [next |-> FALSE, status |-> 403, body |-> Message("Invalid or expired token")]

\* ------------------------------------------------------------- mongoose
\* Mutant of NewBooking: new Booking(req.body), so that status and archived
\* of the request body reach the document.
NewBookingFromBody(id, body) ==
    [_id |-> id,
     name |-> body.name.chars,
     email |-> body.email.chars,
     phone |-> body.phone.chars,
     service |-> body.service.chars,
     date |-> body.date.chars,
     message |-> body.message,
     status |-> IF body.status.defined THEN "Completed" ELSE "Pending",
     archived |-> body.archived.defined,
     createdAt |-> id]

\* new Booking({ name, email, phone, service, date, message }) under
\* bookingSchema: status defaults to "Pending", archived to false; save()
\* assigns _id and the timestamps (createdAt: a logical creation stamp).
NewBooking(id, body) ==
    [_id |-> id,
     name |-> body.name.chars,
     email |-> body.email.chars,
     phone |-> body.phone.chars,
     service |-> body.service.chars,
     date |-> body.date.chars,
     message |-> body.message,
     status |-> "Pending",
     archived |-> FALSE,
     createdAt |-> id]

\* Mutant of FindActive: the archived filter is left out.
FindAll(coll) == {coll[id] : id \in DOMAIN coll}

\* Booking.find({ archived: false }): the matching documents
FindActive(coll) == {coll[id] : id \in {i \in DOMAIN coll : coll[i].archived = FALSE}}

\* .sort({ createdAt: -1 })
RECURSIVE SortByCreatedAtDesc(_)
SortByCreatedAtDesc(docs) ==
    IF docs = {} THEN <<>>
    ELSE LET newest == CHOOSE d \in docs : \A e \in docs : e.createdAt <= d.createdAt
         IN <<newest>> \o SortByCreatedAtDesc(docs \ {newest})

\* Character case folding of { $options: "i" }
Lower(c) ==
    CASE c = "T" -> "t"
      [] c = "O" -> "o"
      [] c = "M" -> "m"
      [] c = "I" -> "i"
      [] c = "L" -> "l"
      [] c = "A" -> "a"
      [] OTHER -> c

\* { field: { $regex: term, $options: "i" } } for a term of plain
\* characters: term occurs in s, ignoring case.
RegexMatch(s, term) ==
    \E i \in 1..(Len(s) - Len(term) + 1) :
        \A j \in 1..Len(term) : Lower(s[i + j - 1]) = Lower(term[j])

\* Booking.find({ archived: false, $or: [name, phone, service] })
FindSearch(coll, term) ==
    {d \in FindActive(coll) :
        \/ RegexMatch(d.name, term)
        \/ RegexMatch(d.phone, term)
        \/ RegexMatch(d.service, term)}

\* Mutant of CountActive: countDocuments({}) counts archived bookings too.
CountAll(coll) == Cardinality(DOMAIN coll)

\* Booking.countDocuments({ archived: false })
CountActive(coll) == Cardinality(FindActive(coll))

\* Booking.countDocuments({ status: st, archived: false })
CountStatus(coll, st) == Cardinality({d \in FindActive(coll) : d.status = st})

\* Booking.findById(id): the document, or null
Null == [null |-> TRUE]
FindById(coll, id) == IF id \in DOMAIN coll THEN coll[id] ELSE Null

\* Mutant of SetCompleted: the status is misspelt.
SetCompletedTypo(coll, id) ==
    IF id \in DOMAIN coll
    THEN [coll EXCEPT ![id] = [@ EXCEPT !.status = "Complete"]]
    ELSE coll

\* Mutant of SetCompleted: the document is replaced, so that archived falls
\* back to its default.
SetCompletedReplace(coll, id) ==
    IF id \in DOMAIN coll
    THEN [coll EXCEPT ![id] = [@ EXCEPT !.status = "Completed", !.archived = FALSE]]
    ELSE coll

\* Booking.findByIdAndUpdate(id, { status: "Completed" })
SetCompleted(coll, id) ==
    IF id \in DOMAIN coll
    THEN [coll EXCEPT ![id] = [@ EXCEPT !.status = "Completed"]]
    ELSE coll

\* Mutant of SetArchived: { upsert: true } inserts a document for a missing id.
SetArchivedUpsert(coll, id) ==
    IF id \in DOMAIN coll
    THEN [coll EXCEPT ![id] = [@ EXCEPT !.archived = TRUE]]
    ELSE (id :> [_id |-> id, name |-> <<>>, email |-> <<>>, phone |-> <<>>,
                 service |-> <<>>, date |-> <<>>, message |-> [defined |-> FALSE, chars |-> <<>>],
                 status |-> "Pending", archived |-> TRUE, createdAt |-> id]) @@ coll

\* Booking.findByIdAndUpdate(id, { archived: true })
SetArchived(coll, id) ==
    IF id \in DOMAIN coll
    THEN [coll EXCEPT ![id] = [@ EXCEPT !.archived = TRUE]]
    ELSE coll

\* Booking.findByIdAndDelete(id)
DeleteById(coll, id) == [i \in DOMAIN coll \ {id} |-> coll[i]]

\* ------------------------------------------------------------------ state
VARIABLES
    bookings,     \* the Booking collection: _id -> document
    nextId,       \* the next _id the store assigns
    now,          \* the clock, in hours
    session,      \* the tokens the admin client holds (its latest login)
    stats,        \* the dashboard-stats request in flight between awaits
    last,         \* the request served last and what was answered
    interleaved   \* history: a write changed the collection while the
                  \* stats request in flight (or just answered) was counting

vars == <<bookings, nextId, now, session, stats, last, interleaved>>

NoArg == [none |-> TRUE]
StatsIdle == [pc |-> "idle", header |-> NoHeader, total |-> 0, pending |-> 0]

\* One served request.  gate: what verifyToken did in this step ("passed",
\* "rejected"), "earlier" when the step resumes a handler that went through
\* it before, "public" on a route without it.  outcome: "responded" (status
\* and body sent), "inflight" (the handler awaits) or "unhandled" (the
\* handler's promise rejected and nothing in the handler answers).  mails:
\* what transporter.sendMail delivered; log: what console.error printed.
Served(op, header, arg, gate, outcome, status, body, mails) ==
    [op |-> op, header |-> header, arg |-> arg, gate |-> gate,
     outcome |-> outcome, status |-> status, body |-> body, mails |-> mails,
     log |-> ""]

\* The response of verifyToken when it does not call next()
Rejected(op, header, arg, g) ==
    Served(op, header, arg, "rejected", "responded", g.status, g.body, <<>>)

\* res.json(body) from inside a guarded handler
Replied(op, header, arg, status, body) ==
    Served(op, header, arg, "passed", "responded", status, body, <<>>)

\* An async handler without try/catch whose awaited store call rejects:
\* the rejection leaves the handler and nothing in it answers the request.
Escaped(op, header) ==
    Served(op, header, NoArg, "passed", "unhandled", 0, Message(""), <<>>)

\* No request served yet (or none since the clock last advanced).
NoRequest == Served("none", NoHeader, NoArg, "public", "responded", 0, Message(""), <<>>)

\* ------------------------------------------------------------ the clients
\* Authorization headers a client may send: none, a scheme alone, a scheme
\* and an empty token, a token signed with another secret, the held token.
Headers ==
    {NoHeader,
     Header(<<Text("Bearer")>>),
     Header(<<Text("Bearer"), Text("")>>),
     Header(<<Text("Bearer"), jwt_sign(ADMIN_LOGIN_EMAIL, "forged", now)>>)}
    \cup {Header(<<Text("Bearer"), tok>>) : tok \in session}

Ids == 1..(MaxId + 1)

Tom == <<"T", "o", "m">>
Required == {"name", "email", "phone", "service", "date"}
GoodBody ==
    [name |-> Str(Tom), email |-> Str(<<"t", "@", "x">>), phone |-> Str(<<"5", "5">>),
     service |-> Str(<<"O", "i", "l">>), date |-> Str(<<"1", "2">>),
     message |-> Undefined, status |-> Undefined, archived |-> Undefined]
\* The same submission carrying fields the handler does not read.
ExtraBody == [GoodBody EXCEPT !.status = Str(<<"C">>), !.archived = Str(<<"1">>),
                              !.message = Str(<<"h", "i">>)]
\* Another customer.
AnaBody == [GoodBody EXCEPT !.name = Str(<<"A", "n", "a">>), !.phone = Str(<<"7">>),
                            !.service = Str(<<"T", "y", "r", "e">>)]
\* Request bodies: complete ones, and ones with one required field missing
\* or empty, or with all of them missing.
Bodies ==
    {GoodBody, ExtraBody, AnaBody}
    \cup {[GoodBody EXCEPT ![f] = v] : f \in Required, v \in {Undefined, Str(<<>>)}}
    \cup {[f \in DOMAIN GoodBody |-> Undefined]}

AdminOps == {"list", "get", "stats", "search", "complete", "archive", "delete"}

Terms == {<<"t", "o">>, <<"5">>, <<"I", "L">>, <<"z">>}

Credentials ==
    [email : {ADMIN_LOGIN_EMAIL, "guest@x"}, password : {ADMIN_LOGIN_PASSWORD, "guess"}]

\* ------------------------------------------------------------------- Init
Init ==
    /\ bookings = <<>>
    /\ nextId = 1
    /\ now = 0
    /\ session = {}
    /\ stats = StatsIdle
    /\ last = NoRequest
    /\ interleaved = FALSE

\* ---------------------------------------------------------------- actions
\* app.post("/admin/login")
Login ==
    \E c \in Credentials :
        IF c.email = ADMIN_LOGIN_EMAIL /\ c.password = ADMIN_LOGIN_PASSWORD
        THEN LET token == jwt_sign(c.email, JWT_SECRET, now) IN
             /\ session' = {token}
             /\ last' = Served("login", NoHeader, c, "public", "responded", 200,
                               [token |-> token], <<>>)
             /\ UNCHANGED <<bookings, nextId, now, stats>>
        ELSE /\ last' = Served("login", NoHeader, c, "public", "responded", 401,
                               Message("Invalid credentials"), <<>>)
             /\ UNCHANGED <<bookings, nextId, now, session, stats>>

\* app.post("/api/bookings"): validation, save, two mails, 201; the catch
\* answers 500 for a failure of the save or of either mail.
CreateBooking ==
    /\ nextId <= MaxId
    /\ \E body \in Bodies, fate \in {"ok", "save fails", "mail 1 fails", "mail 2 fails"} :
        LET Answer(status, msg, mails) ==
                Served("create", NoHeader, body, "public", "responded", status,
                       Message(msg), mails)
            \* the catch: console.error, then 500
            Caught(error, mails) ==
                [Answer(500, "Server error", mails) EXCEPT !.log = error]
            customer == [to |-> body.email.chars, subject |-> "Booking Confirmation"]
            admin == [to |-> ADMIN_EMAIL, subject |-> "New Booking Received"]
        IN
        IF \E f \in Required : Falsy(body[f])
        THEN /\ fate = "ok"
             /\ last' = Answer(400, "All required fields are required", <<>>)
             /\ UNCHANGED <<bookings, nextId, now, session, stats>>
        ELSE IF fate = "save fails"
        THEN /\ last' = Caught("save failed", <<>>)
             /\ UNCHANGED <<bookings, nextId, now, session, stats>>
        ELSE /\ bookings' = (nextId :> NewBooking(nextId, body)) @@ bookings
             /\ nextId' = nextId + 1
             /\ last' = CASE fate = "mail 1 fails" -> Caught("mail failed", <<>>)
                          [] fate = "mail 2 fails" -> Caught("mail failed", <<customer>>)
                          [] OTHER -> Answer(201, "Booking successful", <<customer, admin>>)
             /\ UNCHANGED <<now, session, stats>>

\* What the store call of a handler does: it resolves, or it rejects
\* (connection lost, a cast or query error).
StoreFates == {"resolves", "rejects"}

\* verifyToken in front of an admin route, when it answers itself instead of
\* calling next(): the route's handler does not run.
VerifyTokenRejects ==
    \E op \in AdminOps, h \in Headers :
        LET g == verifyToken(h, now) IN
        /\ ~g.next
        /\ last' = Rejected(op, h, NoArg, g)
        /\ UNCHANGED <<bookings, nextId, now, session, stats>>

\* The headers verifyToken passes on with next()
Admitted == {h \in Headers : verifyToken(h, now).next}

\* app.get("/api/bookings", verifyToken, ...)
GetAllBookings ==
    \E h \in Admitted, fate \in StoreFates :
        /\ last' = IF fate = "rejects" THEN Escaped("list", h)
                   ELSE Replied("list", h, NoArg, 200,
                                [docs |-> SortByCreatedAtDesc(FindActive(bookings))])
        /\ UNCHANGED <<bookings, nextId, now, session, stats>>

\* app.get("/api/bookings/:id", verifyToken, ...)
GetBooking ==
    \E h \in Admitted, id \in Ids, fate \in StoreFates :
        /\ last' = IF fate = "rejects" THEN Escaped("get", h)
                   ELSE Replied("get", h, [id |-> id], 200,
                                [doc |-> FindById(bookings, id)])
        /\ UNCHANGED <<bookings, nextId, now, session, stats>>

\* app.get("/api/bookings/search/:term", verifyToken, ...)
SearchBookings ==
    \E h \in Admitted, term \in Terms, fate \in StoreFates :
        /\ last' = IF fate = "rejects" THEN Escaped("search", h)
                   ELSE Replied("search", h, [term |-> term], 200,
                                [docs |-> FindSearch(bookings, term)])
        /\ UNCHANGED <<bookings, nextId, now, session, stats>>

\* app.put("/api/bookings/:id/complete", verifyToken, ...)
MarkCompleted ==
    \E h \in Admitted, id \in Ids, fate \in StoreFates :
        IF fate = "rejects"
        THEN /\ last' = Escaped("complete", h)
             /\ UNCHANGED <<bookings, nextId, now, session, stats>>
        ELSE /\ bookings' = SetCompleted(bookings, id)
             /\ last' = Replied("complete", h, [id |-> id], 200,
                                Message("Marked as completed"))
             /\ UNCHANGED <<nextId, now, session, stats>>

\* app.put("/api/bookings/:id/archive", verifyToken, ...)
ArchiveBooking ==
    \E h \in Admitted, id \in Ids, fate \in StoreFates :
        IF fate = "rejects"
        THEN /\ last' = Escaped("archive", h)
             /\ UNCHANGED <<bookings, nextId, now, session, stats>>
        ELSE /\ bookings' = SetArchived(bookings, id)
             /\ last' = Replied("archive", h, [id |-> id], 200,
                                Message("Archived successfully"))
             /\ UNCHANGED <<nextId, now, session, stats>>

\* app.delete("/api/bookings/:id", verifyToken, ...)
DeleteBooking ==
    \E h \in Admitted, id \in Ids, fate \in StoreFates :
        IF fate = "rejects"
        THEN /\ last' = Escaped("delete", h)
             /\ UNCHANGED <<bookings, nextId, now, session, stats>>
        ELSE /\ bookings' = DeleteById(bookings, id)
             /\ last' = Replied("delete", h, [id |-> id], 200,
                                Message("Deleted successfully"))
             /\ UNCHANGED <<nextId, now, session, stats>>

\* The catch of the stats handler
StatsError(h, gate) ==
    Served("stats", h, NoArg, gate, "responded", 500, Message("Error fetching stats"), <<>>)

\* app.get("/api/dashboard/stats", verifyToken, ...) up to its second await:
\* countDocuments({ archived: false }) has resolved or rejected.
DashboardStats ==
    /\ stats.pc = "idle"
    /\ \E h \in Admitted, fate \in StoreFates :
        IF fate = "rejects"
        THEN /\ last' = StatsError(h, "passed")
             /\ UNCHANGED <<bookings, nextId, now, session, stats>>
        ELSE /\ stats' = [pc |-> "pending", header |-> h,
                          total |-> CountActive(bookings), pending |-> 0]
             /\ last' = Served("stats", h, NoArg, "passed", "inflight", 0, Message(""), <<>>)
             /\ UNCHANGED <<bookings, nextId, now, session>>

\* The second await: countDocuments({ status: "Pending", archived: false })
StatsCountPending ==
    /\ stats.pc = "pending"
    /\ \E fate \in StoreFates :
        IF fate = "rejects"
        THEN /\ stats' = StatsIdle
             /\ last' = StatsError(stats.header, "earlier")
             /\ UNCHANGED <<bookings, nextId, now, session>>
        ELSE /\ stats' = [stats EXCEPT !.pc = "completed",
                                       !.pending = CountStatus(bookings, "Pending")]
             /\ UNCHANGED <<bookings, nextId, now, session, last>>

\* The third await, countDocuments({ status: "Completed", archived: false }),
\* and res.json({ total, pending, completed }).
StatsCountCompleted ==
    /\ stats.pc = "completed"
    /\ \E fate \in StoreFates :
        /\ stats' = StatsIdle
        /\ last' = IF fate = "rejects" THEN StatsError(stats.header, "earlier")
                   ELSE Served("stats", stats.header, NoArg, "earlier", "responded", 200,
                               [total |-> stats.total, pending |-> stats.pending,
                                completed |-> CountStatus(bookings, "Completed")], <<>>)
        /\ UNCHANGED <<bookings, nextId, now, session>>

\* An hour passes; last shows a request served at the current hour.
Tick ==
    /\ now < MaxTime
    /\ now' = now + 1
    /\ last' = NoRequest
    /\ UNCHANGED <<bookings, nextId, session, stats>>

\* The history variable: set while a stats request is counting and a step
\* changes the collection; kept for the state that shows its answer.
Observe ==
    interleaved' = /\ stats.pc # "idle"
                   /\ interleaved \/ bookings' # bookings

\* The booking service under an authenticated admin and public submissions,
\* all within one token lifetime.
Next ==
    \/ Login /\ Observe
    \/ CreateBooking /\ Observe
    \/ GetAllBookings /\ Observe
    \/ GetBooking /\ Observe
    \/ SearchBookings /\ Observe
    \/ MarkCompleted /\ Observe
    \/ ArchiveBooking /\ Observe
    \/ DeleteBooking /\ Observe
    \/ DashboardStats /\ Observe
    \/ StatsCountPending /\ Observe
    \/ StatsCountCompleted /\ Observe

Spec == Init /\ [][Next]_vars

\* The admin surface over a store that already holds a booking,
\* with any Authorization header, while time passes and tokens expire.
InitAuth ==
    /\ bookings = (1 :> NewBooking(1, GoodBody))
    /\ nextId = 1 + Cardinality(DOMAIN bookings)
    /\ now = 0
    /\ session = {}
    /\ stats = StatsIdle
    /\ last = NoRequest
    /\ interleaved = FALSE

NextAuth ==
    \/ Login /\ Observe
    \/ Tick /\ Observe
    \/ VerifyTokenRejects /\ Observe
    \/ GetAllBookings /\ Observe
    \/ GetBooking /\ Observe
    \/ SearchBookings /\ Observe
    \/ MarkCompleted /\ Observe
    \/ ArchiveBooking /\ Observe
    \/ DeleteBooking /\ Observe
    \/ DashboardStats /\ Observe
    \/ StatsCountPending /\ Observe
    \/ StatsCountCompleted /\ Observe

SpecAuth == InitAuth /\ [][NextAuth]_vars

\* ================================================================ claims

\* The token of an Authorization header, when it has a token segment.
HasToken(h) == h.present /\ Len(h.segs) >= 2 /\ ~SegFalsy(h.segs[2])
\* A token as /admin/login issues it for the correct credentials, no older
\* than four hours.
IssuedByLogin(tok) ==
    /\ "sig" \in DOMAIN tok
    /\ \E t \in 0..now : tok = [sig |-> JWT_SECRET, email |-> ADMIN_LOGIN_EMAIL,
                                iat |-> t, exp |-> t + 4]
Unexpired(tok) == now - tok.iat < 4

\* C1: on every admin endpoint, a request without an Authorization header is
\* answered 401, one whose header has no token segment is answered 401, one
\* whose token is invalid or expired is answered 403, and the handler runs
\* (and answers 200) only for an unexpired token that /admin/login issued
\* for the correct credentials; login issues a token for those alone.
C1_AuthGate ==
    /\ (last.op \in AdminOps /\ last.gate \in {"passed", "rejected"}) =>
        LET h == last.header IN
        /\ ~h.present => (last.gate = "rejected" /\ last.status = 401)
        /\ (h.present /\ ~HasToken(h)) => (last.gate = "rejected" /\ last.status = 401)
        /\ (HasToken(h) /\ ~(IssuedByLogin(h.segs[2]) /\ Unexpired(h.segs[2])))
              => (last.gate = "rejected" /\ last.status = 403)
        /\ last.gate = "passed" =>
              /\ HasToken(h) /\ IssuedByLogin(h.segs[2]) /\ Unexpired(h.segs[2])
              /\ last.outcome = "responded" =>
                    (last.status = 200 \/ (last.op = "stats" /\ last.status = 500))
    /\ (last.op \in AdminOps /\ last.status = 200) => last.gate \in {"passed", "earlier"}
    /\ last.op = "login" =>
        IF last.arg.email = ADMIN_LOGIN_EMAIL /\ last.arg.password = ADMIN_LOGIN_PASSWORD
        THEN last.status = 200 /\ IssuedByLogin(last.body.token)
        ELSE last.status = 401
    /\ \A tok \in session : IssuedByLogin(tok)

\* A token that login issued has expired and an admin endpoint answers 403.
C1_Witness ==
    /\ last.op = "delete"
    /\ last.gate = "rejected"
    /\ last.status = 403
    /\ IssuedByLogin(last.header.segs[2])
    /\ bookings # <<>>

AllPresent(body) == \A f \in Required : body[f].defined /\ body[f].chars # <<>>

\* C2: a create whose name, email, phone, service and date are all present
\* and non-empty, and whose save did not fail, leaves a persisted record
\* with those fields, status "Pending" and archived false, whatever else
\* the body carries.
C2_CreatePersistsPending ==
    (last.op = "create" /\ AllPresent(last.arg) /\ last.log # "save failed") =>
        LET id == nextId - 1 IN
        /\ id \in DOMAIN bookings
        /\ bookings[id].status = "Pending"
        /\ bookings[id].archived = FALSE
        /\ bookings[id].name = last.arg.name.chars
        /\ bookings[id].email = last.arg.email.chars
        /\ bookings[id].phone = last.arg.phone.chars
        /\ bookings[id].service = last.arg.service.chars
        /\ bookings[id].date = last.arg.date.chars

\* A body that carries status and archived of its own was accepted.
C2_Witness ==
    /\ last.op = "create"
    /\ last.status = 201
    /\ last.arg.status.defined
    /\ last.arg.archived.defined

\* C3: a create with any required field missing or empty is answered 400,
\* changes no persisted booking and sends no mail.
C3_CreateRejectsMissing ==
    [][(last'.op = "create" /\ ~AllPresent(last'.arg)) =>
          /\ last'.status = 400
          /\ last'.mails = <<>>
          /\ bookings' = bookings
          /\ nextId' = nextId]_vars

\* A body with an empty (not a missing) required field was answered 400.
C3_Witness ==
    /\ last.op = "create"
    /\ last.status = 400
    /\ \E f \in Required : last.arg[f].defined

\* C4 (as claimed): when the booking is saved and a mail send then fails,
\* the request is still answered with the success status and the record
\* is kept.
C4_MailFailureStillSucceeds ==
    (last.op = "create" /\ last.log = "mail failed") =>
        /\ last.status = 201
        /\ (nextId - 1) \in DOMAIN bookings

Range(seq) == {seq[i] : i \in 1..Len(seq)}
Returned == IF last.op = "list" THEN Range(last.body.docs) ELSE last.body.docs

\* C5: what listActive() and search() return holds no archived record, and
\* no record the store holds as archived.
C5_NoArchivedReturned ==
    (last.op \in {"list", "search"} /\ last.status = 200) =>
        \A d \in Returned :
            /\ d.archived = FALSE
            /\ d._id \in DOMAIN bookings
            /\ bookings[d._id].archived = FALSE

\* A booking was archived and a search that matches its name returns nothing.
C5_Witness ==
    /\ last.op = "search"
    /\ last.status = 200
    /\ last.body.docs = {}
    /\ \E id \in DOMAIN bookings :
          bookings[id].archived /\ RegexMatch(bookings[id].name, last.arg.term)

\* dashboardStats() over a collection, with nothing interleaved
StatsOf(coll) ==
    [total |-> CountActive(coll), pending |-> CountStatus(coll, "Pending"),
     completed |-> CountStatus(coll, "Completed")]

\* The step is a markCompleted(id) that was answered, on a Pending booking.
CompletesPending ==
    /\ last'.op = "complete"
    /\ last'.gate = "passed"
    /\ last'.outcome = "responded"
    /\ last'.arg.id \in DOMAIN bookings
    /\ bookings[last'.arg.id].status = "Pending"

StatsShift ==
    /\ StatsOf(bookings').completed = StatsOf(bookings).completed + 1
    /\ StatsOf(bookings').pending = StatsOf(bookings).pending - 1
    /\ StatsOf(bookings').total = StatsOf(bookings).total

\* C6 (as claimed): markCompleted of any existing Pending booking makes
\* completed one larger, pending one smaller and leaves total.
C6_AnyPending == [][CompletesPending => StatsShift]_vars

\* C6 (amended): markCompleted of an existing Pending booking that is not
\* archived makes completed one larger, pending one smaller and leaves total.
C6_ActivePending ==
    [][(CompletesPending /\ ~bookings[last'.arg.id].archived) => StatsShift]_vars

\* An active booking has just been marked completed.
C6_Witness ==
    /\ last.op = "complete"
    /\ last.outcome = "responded"
    /\ last.arg.id \in DOMAIN bookings
    /\ bookings[last.arg.id].status = "Completed"
    /\ ~bookings[last.arg.id].archived

\* C7: markCompleted, archive and delete of an id that matches no booking,
\* when the store call resolves, are answered 200 with their usual message
\* and change no persisted booking.
C7_MissingIdNoOp ==
    [][(/\ last'.op \in {"complete", "archive", "delete"}
        /\ last'.gate = "passed"
        /\ last'.outcome = "responded"
        /\ last'.arg.id \notin DOMAIN bookings) =>
          /\ last'.status = 200
          /\ last'.body.message =
                CASE last'.op = "complete" -> "Marked as completed"
                  [] last'.op = "archive" -> "Archived successfully"
                  [] OTHER -> "Deleted successfully"
          /\ bookings' = bookings]_vars

\* An id never assigned was archived while the store holds a booking.
C7_Witness ==
    /\ last.op = "archive"
    /\ last.status = 200
    /\ last.arg.id = nextId
    /\ bookings # <<>>

\* C8 (as claimed): no failure leaves a handler and no request stays
\* without a response: a request whose store call failed was answered with
\* a 500 JSON message.
C8_FailuresAnswered ==
    /\ last.outcome # "unhandled"
    /\ last.log = "save failed" => (last.status = 500 /\ "message" \in DOMAIN last.body)

\* C9: a stored booking whose archived flag is true keeps it true while it
\* exists, and markCompleted changes no archived flag.
C9_ArchivedMonotonic ==
    [][/\ \A id \in DOMAIN bookings \cap DOMAIN bookings' :
             bookings[id].archived => bookings'[id].archived
       /\ last'.op = "complete" =>
             /\ DOMAIN bookings' = DOMAIN bookings
             /\ \A id \in DOMAIN bookings :
                   bookings'[id].archived = bookings[id].archived]_vars

\* An archived booking has been marked completed and is still archived.
C9_Witness ==
    /\ last.op = "complete"
    /\ last.outcome = "responded"
    /\ last.arg.id \in DOMAIN bookings
    /\ bookings[last.arg.id].archived
    /\ bookings[last.arg.id].status = "Completed"

StatsAnswered == last.op = "stats" /\ last.status = 200

\* C10 (as claimed): every dashboardStats() response has
\* total = pending + completed, whatever is served between its counts.
C10_TotalIsSum ==
    StatsAnswered => last.body.total = last.body.pending + last.body.completed

\* C10 (amended): a dashboardStats() response has total = pending +
\* completed when no request changed the collection between its counts.
C10_TotalIsSumQuiet ==
    (StatsAnswered /\ ~interleaved) =>
        last.body.total = last.body.pending + last.body.completed

\* Stats over a non-empty active set, answered with nothing interleaved.
C10_Witness ==
    /\ StatsAnswered
    /\ ~interleaved
    /\ last.body.total > 0

====
